---- MODULE Spec2Model ----
(***************************************************************************)
(* A model of pack.h: format<elements...>::pack and ::unpack, built from   *)
(* the field codecs integral<raw_type, order>, fixed_string<length> and    *)
(* varchar<length_encoder>.                                                *)
(*                                                                         *)
(* Conventions.                                                            *)
(*  - A byte is a number in 0..255, a std::string a sequence of bytes.     *)
(*  - An iterator into the unpacked buffer is its offset from begin(), so  *)
(*    packed.begin() is 0 and packed.end() is Len(packed).  Iterators are  *)
(*    plain pointers: moving one past the end is address arithmetic that   *)
(*    reads nothing, so an offset may exceed Len(packed).  Reading bytes   *)
(*    through an offset outside the buffer is undefined behaviour and is   *)
(*    modelled in decode_all as a choice between a crash and a string      *)
(*    whose out-of-buffer bytes are arbitrary.                             *)
(*  - raw_type is an unsigned integer type of sizeof `size`; the host is   *)
(*    little-endian (endian::native = little, pack.h line 7).              *)
(*  - A pack call the compiler rejects (no viable overload) has the        *)
(*    outcome "ill_formed".                                                *)
(***************************************************************************)
EXTENDS Integers, Sequences

VARIABLES fmt, arguments, packed, extra, buffer, current, idx, plan, status, result, pc

vars == <<fmt, arguments, packed, extra, buffer, current, idx, plan, status, result, pc>>

----------------------------------------------------------------------------
(* Bounds of the model *)

MaxFields == 2
MaxStrLen == 2
MaxBuf == 3
MaxExtra == 1

(* sizeof(raw_type) of the modelled integer types: uint8_t, uint16_t *)
Widths == {1, 2}
Orders == {"little", "big"}
(* values handed to integral fields; 258 = 0x0102 *)
IntVals == {0, 1, 258}
(* the strings handed to pack are the substrings of "abc" *)
Text == <<97, 98, 99>>
(* bytes of the buffers handed to unpack *)
BufBytes == {0, 1, 2}

----------------------------------------------------------------------------
(* Field specs: the template arguments of format<...> *)

Integral(w, o) == [kind |-> "integral", size |-> w, order |-> o]

FixedString(l) == [kind |-> "fixed_string", length |-> l]

Varchar(e) == [kind |-> "varchar", length_encoder |-> e]

Integrals == {Integral(w, o) : w \in Widths, o \in Orders}

Elements == Integrals \cup {FixedString(l) : l \in 1..MaxStrLen} \cup {Varchar(e) : e \in Integrals}

SeqsUpTo(S, n) == UNION {[1..k -> S] : k \in 0..n}

Formats == SeqsUpTo(Elements, MaxFields) \ {<<>>}

(* Values: the arguments of pack and the members of unpack's tuple *)

IntArg(n) == [t |-> "int", n |-> n, s |-> <<>>]

StrArg(s) == [t |-> "str", n |-> 0, s |-> s]

Strings ==
    {SubSeq(Text, p[1], p[2]) :
        p \in {q \in (1..Len(Text)) \X (0..Len(Text)) : q[2] - q[1] + 1 \in 0..MaxStrLen}}

Buffers == SeqsUpTo(BufBytes, MaxBuf)

Extras == SeqsUpTo(BufBytes, MaxExtra)

----------------------------------------------------------------------------
(* Bytes and byte order *)

(* the object representation of raw_type(value) on the little-endian host:
   the conversion to the unsigned raw_type reduces value modulo 2^(8*size) *)
ObjectBytes(value, size) == [i \in 1..size |-> (value \div (256 ^ (i - 1))) % 256]

RECURSIVE ObjectValue(_)
ObjectValue(bytes) ==
    IF bytes = <<>> THEN 0 ELSE Head(bytes) + 256 * ObjectValue(Tail(bytes))

Reversed(s) == [i \in 1..Len(s) |-> s[Len(s) + 1 - i]]

byte_copy_swapped(order, source) == IF order = "big" THEN source ELSE Reversed(source)

byte_copy(order, source) == IF order = "big" THEN Reversed(source) ELSE source

----------------------------------------------------------------------------
(* pack *)

Ok(bytes) == [status |-> "ok", what |-> "", bytes |-> bytes]

(* throw exception(message): `what` is the message without the number that ends it *)
Thrown(what) == [status |-> "exception", what |-> what, bytes |-> <<>>]

IllFormedCall == [status |-> "ill_formed", what |-> "no matching function", bytes |-> <<>>]

(* integral::chain::pack: the bytes of the value, before the followers' *)
integral_pack(element, value) == byte_copy(element.order, ObjectBytes(value, element.size))

(* overload resolution of the chain of pack calls: each element's chain::pack
   takes one leading argument convertible to raw_type (an integer) or to
   std::string; follow_up<finalizer>::pack takes any arguments *)
RECURSIVE Viable(_, _)
Viable(elements, args) ==
    IF elements = <<>> THEN TRUE
    ELSE /\ args # <<>>
         /\ Head(args).t = (IF Head(elements).kind = "integral" THEN "int" ELSE "str")
         /\ Viable(Tail(elements), Tail(args))

fixed_string_accepts_shorter(element, value) == Len(value) <= element.length

(* fixed_string::chain::pack, the test of line 128 negated *)
fixed_string_accepts(element, value) == Len(value) = element.length

(* follow_up<finalizer>::pack: both overloads return the empty string *)
finalizer_pack(args) == Ok(<<>>)

RECURSIVE follow_up_pack(_, _)
follow_up_pack(elements, args) ==
    IF elements = <<>> THEN finalizer_pack(args)
    ELSE LET head == Head(elements)
             value == IF head.kind = "integral" THEN Head(args).n ELSE Head(args).s
             followers == follow_up_pack(Tail(elements), Tail(args))
         IN  CASE head.kind = "integral" ->
                    IF followers.status = "ok"
                    THEN Ok(integral_pack(head, value) \o followers.bytes)
                    ELSE followers
               [] head.kind = "fixed_string" ->
                    IF ~fixed_string_accepts(head, value)
                    THEN Thrown("Packed string should be of length")
                    ELSE IF followers.status = "ok"
                         THEN Ok(value \o followers.bytes)
                         ELSE followers
               [] head.kind = "varchar" ->
                    LET size == follow_up_pack(<<head.length_encoder>>, <<IntArg(Len(value))>>)
                    IN  IF followers.status = "ok"
                        THEN Ok(size.bytes \o value \o followers.bytes)
                        ELSE followers

(* format::pack(arguments...) *)
format_pack(elements, args) ==
    IF Viable(elements, args) THEN follow_up_pack(elements, args) ELSE IllFormedCall

----------------------------------------------------------------------------
(* unpack: one view (piece) per field, then decode_all *)

Piece(b, e) == [source |-> "packed", begin |-> b, end |-> e]

(* integral::unpack's static null_decoder: a view of sizeof(raw_type) zero bytes *)
null_decoder(element) == [source |-> "null", begin |-> 0, end |-> element.size]

Planned(view, cur) == [status |-> "ok", view |-> view, current |-> cur]

Failed(what) == [status |-> "exception", what |-> what]

integral_unpack_consuming(element, cur, end) ==
    IF cur + element.size <= end
    THEN Planned(Piece(cur, cur + element.size), cur + element.size)
    ELSE Planned(null_decoder(element), IF cur < end THEN end ELSE cur)

integral_unpack(element, cur, end) ==
    IF cur + element.size <= end
    THEN Planned(Piece(cur, cur + element.size), cur + element.size)
    ELSE Planned(null_decoder(element), cur)

(* the bytes a view of an integral field covers; such a view is inside the
   buffer or is the null_decoder *)
PieceBytes(view, bytes) ==
    IF view.source = "null" THEN [i \in 1..(view.end - view.begin) |-> 0]
    ELSE SubSeq(bytes, view.begin + 1, view.end)

(* integral::decoder::decode *)
integral_decode(element, view, bytes) ==
    ObjectValue(byte_copy(element.order, PieceBytes(view, bytes)))

fixed_string_unpack_lenient(element, cur, end) ==
    IF cur + element.length <= end
    THEN Planned(Piece(cur, cur + element.length), cur + element.length)
    ELSE Planned(Piece(cur, IF cur < end THEN end ELSE cur), IF cur < end THEN end ELSE cur)

fixed_string_unpack(element, cur, end) ==
    IF cur + element.length <= end
    THEN Planned(Piece(cur, cur + element.length), cur + element.length)
    ELSE Failed("Not enough data left in buffer to unpack fixed_string")

(* a 32-bit unsigned, or a size_t below 2^32, as two 16-bit halves <<high, low>>;
   a negative n is 2^32 + n, as the conversion unsigned(end - current) makes it *)
Unsigned(n) ==
    IF n >= 0 THEN <<n \div 65536, n % 65536>>
    ELSE <<65535 - ((-n - 1) \div 65536), 65535 - ((-n - 1) % 65536)>>

UnsignedLeq(a, b) == a[1] < b[1] \/ (a[1] = b[1] /\ a[2] <= b[2])

(* varchar::unpack, line 151: the length field, unpacked and decoded at once *)
varchar_length(element, cur, bytes) ==
    LET field == integral_unpack(element.length_encoder, cur, Len(bytes))
    IN  [length |-> integral_decode(element.length_encoder, field.view, bytes),
         current |-> field.current]

(* varchar::unpack, lines 152-158 *)
varchar_unpack(element, cur, bytes) ==
    LET lf == varchar_length(element, cur, bytes)
        length == lf.length
        begin == lf.current
    IN  IF UnsignedLeq(Unsigned(Len(bytes) - begin), Unsigned(length))
        THEN Planned(Piece(begin, (begin + length) + length), begin + length)
        ELSE Failed("Not enough data left in unpack of varchar")

(* head_type::unpack(current, end) *)
element_unpack(element, cur, bytes) ==
    CASE element.kind = "integral" -> integral_unpack(element, cur, Len(bytes))
      [] element.kind = "fixed_string" -> fixed_string_unpack(element, cur, Len(bytes))
      [] element.kind = "varchar" -> varchar_unpack(element, cur, bytes)

(* follow_up<head, tail...>::unpack: the views of all fields, or the exception *)
RECURSIVE follow_up_unpack(_, _, _)
follow_up_unpack(elements, cur, bytes) ==
    IF elements = <<>> THEN [status |-> "ok", plan |-> <<>>]
    ELSE LET ret == element_unpack(Head(elements), cur, bytes)
         IN  IF ret.status # "ok" THEN ret
             ELSE LET tail == follow_up_unpack(Tail(elements), ret.current, bytes)
                  IN  IF tail.status # "ok" THEN tail
                      ELSE [status |-> "ok", plan |-> <<ret.view>> \o tail.plan]

(* a view that std::string(begin, end) can read without leaving the buffer *)
InBuffer(view, bytes) ==
    view.source = "null" \/ (0 <= view.begin /\ view.begin <= view.end /\ view.end <= Len(bytes))

(* stringer::decoder::decode: std::string(begin, end); a byte outside the
   buffer reads as `fill` *)
stringer_decode(view, bytes, fill) ==
    [i \in 1..(view.end - view.begin) |->
        IF view.begin + i <= Len(bytes) /\ view.begin + i >= 1 THEN bytes[view.begin + i] ELSE fill]

(* decode(std::get<I>(decoders)) *)
decode(element, view, bytes, fill) ==
    IF element.kind = "integral" THEN IntArg(integral_decode(element, view, bytes))
    ELSE StrArg(stringer_decode(view, bytes, fill))

(* decode_all: the tuple of the decoded views, in field order *)
decode_all(elements, decoders, bytes, fill) ==
    [i \in 1..Len(decoders) |-> decode(elements[i], decoders[i], bytes, fill)]

----------------------------------------------------------------------------
(* The calls a program makes on one format *)

NotCalled == [status |-> "none", what |-> "", bytes |-> <<>>]

(* the values a call site passes for a field: of the type the field's
   chain::pack takes, or one of the other type *)
WrongType == {IntArg(0), StrArg(<<>>)}

Candidates(element) ==
    IF element.kind = "integral"
    THEN {IntArg(n) : n \in IntVals} \cup {StrArg(<<>>)}
    ELSE {StrArg(s) : s \in Strings} \cup {IntArg(0)}

(* the argument lists of a pack call: one value per field, and the lists with
   the last value missing or with one more value *)
RECURSIVE OnePerField(_)
OnePerField(elements) ==
    IF elements = <<>> THEN {<<>>}
    ELSE {<<c>> \o rest : c \in Candidates(Head(elements)), rest \in OnePerField(Tail(elements))}

ArgLists(elements) ==
    LET exact == OnePerField(elements)
    IN  exact \cup {SubSeq(a, 1, Len(a) - 1) : a \in exact}
              \cup {Append(a, x) : a \in exact, x \in WrongType}

Init ==
    /\ fmt \in Formats
    /\ arguments = <<>>
    /\ packed = NotCalled
    /\ extra = <<>>
    /\ buffer = <<>>
    /\ current = 0
    /\ idx = 0
    /\ plan = <<>>
    /\ status = "none"
    /\ result = <<>>
    /\ pc = "ready"

(* format::pack(arguments...) *)
PackCall ==
    /\ pc = "ready"
    /\ \E a \in ArgLists(fmt) :
          /\ arguments' = a
          /\ packed' = format_pack(fmt, a)
    /\ pc' = "packed"
    /\ UNCHANGED <<fmt, extra, buffer, current, idx, plan, status, result>>

(* format::unpack(packed), lines 168-169: the cursor starts at packed.begin() *)
Enter(bytes) ==
    /\ buffer' = bytes
    /\ current' = 0
    /\ idx' = 1
    /\ plan' = <<>>
    /\ status' = "ok"
    /\ pc' = "unpacking"
    /\ UNCHANGED <<fmt, arguments, packed, result>>

(* unpack of what pack returned, followed by some more bytes *)
UnpackPacked ==
    /\ pc = "packed"
    /\ packed.status = "ok"
    /\ \E x \in Extras :
          /\ extra' = x
          /\ Enter(packed.bytes \o x)

(* unpack of any buffer *)
UnpackCall ==
    /\ pc = "ready"
    /\ \E b \in Buffers : Enter(b)
    /\ UNCHANGED extra

(* follow_up::unpack, line 25 or 38: the head field's unpack moves the cursor
   and yields its view, or throws and ends the call *)
Step(ret) ==
    /\ IF ret.status = "ok"
       THEN /\ plan' = Append(plan, ret.view)
            /\ current' = ret.current
            /\ idx' = idx + 1
            /\ status' = "ok"
            /\ pc' = "unpacking"
       ELSE /\ status' = ret.what
            /\ pc' = "done"
            /\ UNCHANGED <<plan, current, idx>>
    /\ UNCHANGED <<fmt, arguments, packed, extra, buffer, result>>

AtField(kind) == pc = "unpacking" /\ idx <= Len(fmt) /\ fmt[idx].kind = kind

IntegralUnpack ==
    /\ AtField("integral")
    /\ Step(integral_unpack(fmt[idx], current, Len(buffer)))

FixedStringUnpack ==
    /\ AtField("fixed_string")
    /\ Step(fixed_string_unpack(fmt[idx], current, Len(buffer)))

VarcharUnpack ==
    /\ AtField("varchar")
    /\ Step(varchar_unpack(fmt[idx], current, buffer))

AllInBuffer == \A i \in 1..Len(plan) : InBuffer(plan[i], buffer)

(* format::unpack, lines 170-171: every view is decoded.  A view that leaves
   the buffer is read all the same, which is undefined: the call crashes, or
   returns with the bytes outside the buffer read as some value `fill` *)
DecodeAll ==
    /\ pc = "unpacking"
    /\ idx > Len(fmt)
    /\ IF AllInBuffer
       THEN /\ result' = decode_all(fmt, plan, buffer, 0)
            /\ status' = "ok"
       ELSE \/ /\ status' = "crashed"
               /\ result' = <<>>
            \/ /\ status' = "ok"
               /\ \E fill \in BufBytes : result' = decode_all(fmt, plan, buffer, fill)
    /\ pc' = "done"
    /\ UNCHANGED <<fmt, arguments, packed, extra, buffer, current, idx, plan>>

Fields == IntegralUnpack \/ FixedStringUnpack \/ VarcharUnpack \/ DecodeAll

Next == PackCall \/ UnpackPacked \/ UnpackCall \/ Fields

Spec == Init /\ [][Next]_vars

(* pack calls only *)
SpecPack == Init /\ [][PackCall]_vars

(* unpack calls on any buffer *)
SpecUnpack == Init /\ [][UnpackCall \/ Fields]_vars

----------------------------------------------------------------------------
(* The wire layout the format documents, field by field *)

(* w bytes of v, least-significant byte first *)
LeastFirst(v, w) == [i \in 1..w |-> (v \div (256 ^ (i - 1))) % 256]

(* w bytes of v, most-significant byte first *)
MostFirst(v, w) == [i \in 1..w |-> (v \div (256 ^ (w - i))) % 256]

IntegralEncoding(element, v) ==
    IF element.order = "big" THEN MostFirst(v % (256 ^ element.size), element.size)
    ELSE LeastFirst(v % (256 ^ element.size), element.size)

FieldEncoding(element, arg) ==
    CASE element.kind = "integral" -> IntegralEncoding(element, arg.n)
      [] element.kind = "fixed_string" -> arg.s
      [] element.kind = "varchar" -> IntegralEncoding(element.length_encoder, Len(arg.s)) \o arg.s

FieldSize(element, arg) ==
    CASE element.kind = "integral" -> element.size
      [] element.kind = "fixed_string" -> element.length
      [] element.kind = "varchar" -> element.length_encoder.size + Len(arg.s)

RECURSIVE WireLayout(_, _)
WireLayout(elements, args) ==
    IF elements = <<>> THEN <<>>
    ELSE FieldEncoding(Head(elements), Head(args)) \o WireLayout(Tail(elements), Tail(args))

RECURSIVE WireSize(_, _)
WireSize(elements, args) ==
    IF elements = <<>> THEN 0
    ELSE FieldSize(Head(elements), Head(args)) + WireSize(Tail(elements), Tail(args))

(* C2: whenever pack returns bytes, they are the concatenation, in field order
   and without padding, of the fields' encodings: an integral is its size in
   bytes, least-significant first for little and most-significant first for
   big (0x0102 is 02 01 little and 01 02 big), a fixed string its bytes, a
   varchar the encoding of its length and then its bytes; so the length of
   the output is the sum of the field sizes. *)
C2_WireLayout ==
    (pc = "packed" /\ packed.status = "ok") =>
        /\ packed.bytes = WireLayout(fmt, arguments)
        /\ Len(packed.bytes) = WireSize(fmt, arguments)
        /\ (fmt[1] = Integral(2, "little") /\ arguments[1] = IntArg(258)
                => SubSeq(packed.bytes, 1, 2) = <<2, 1>>)
        /\ (fmt[1] = Integral(2, "big") /\ arguments[1] = IntArg(258)
                => SubSeq(packed.bytes, 1, 2) = <<1, 2>>)

C2_Witness ==
    /\ pc = "packed"
    /\ fmt = <<Integral(2, "big"), Varchar(Integral(1, "little"))>>
    /\ arguments = <<IntArg(258), StrArg(<<97, 98>>)>>
    /\ packed = Ok(<<1, 2, 2, 97, 98>>)

(* C6: pack returns bytes only when it is called with exactly as many
   arguments as the format has fields; a call with fewer or with more is
   rejected and returns no bytes. *)
C6_PackArity ==
    (pc = "packed" /\ Len(arguments) # Len(fmt)) => (packed.status # "ok" /\ packed.bytes = <<>>)

(* some fixed_string field is given a string that has not its length *)
SomeLengthMismatch ==
    \E i \in 1..Len(fmt) :
        /\ fmt[i].kind = "fixed_string"
        /\ i <= Len(arguments)
        /\ arguments[i].t = "str"
        /\ Len(arguments[i].s) # fmt[i].length

(* C7: a pack call (one that compiles) in which some fixed_string field, at
   any position, is given a string of another length throws the length
   exception and returns no bytes at all; when every fixed string has its
   declared length pack throws nothing. *)
C7_LengthMismatchAborts ==
    (pc = "packed" /\ packed.status # "ill_formed") =>
        IF SomeLengthMismatch
        THEN packed = Thrown("Packed string should be of length")
        ELSE packed.status = "ok"

C7_Witness ==
    /\ pc = "packed"
    /\ fmt = <<Integral(1, "little"), FixedString(2)>>
    /\ arguments = <<IntArg(1), StrArg(<<97>>)>>
    /\ packed.status = "exception"
    /\ packed.bytes = <<>>

----------------------------------------------------------------------------
(* Steps of unpack *)

(* the bytes left between the cursor and the end of the buffer *)
Remaining == Len(buffer) - current

(* the head field's unpack returned its view *)
Returned == pc' = "unpacking" /\ status' = "ok" /\ idx' = idx + 1

(* the head field's unpack threw `what`: the call ends without a tuple *)
Threw(what) == pc' = "done" /\ status' = what /\ result' = <<>>

(* the last step of unpack returned the tuple *)
Decoded == pc = "unpacking" /\ idx > Len(fmt) /\ pc' = "done" /\ status' = "ok"

(* C4: an integral field reached with fewer bytes left than its size raises
   nothing and decodes to 0 in either byte order; a fixed_string field reached
   with fewer bytes left than its length throws the not-enough-data exception
   and the call returns no tuple; with enough bytes left neither throws. *)
C4_UnderrunAsymmetry ==
    [][/\ AtField("integral") =>
            /\ Returned
            /\ Remaining < fmt[idx].size =>
                  /\ plan'[idx] = null_decoder(fmt[idx])
                  /\ decode(fmt[idx], plan'[idx], buffer, 0) = IntArg(0)
       /\ AtField("fixed_string") =>
            IF Remaining < fmt[idx].length
            THEN Threw("Not enough data left in buffer to unpack fixed_string")
            ELSE Returned
       /\ Decoded =>
            \A i \in 1..Len(fmt) : plan[i].source = "null" => result'[i] = IntArg(0)]_vars

C4_Witness ==
    /\ pc = "done"
    /\ fmt = <<Integral(2, "big"), FixedString(2)>>
    /\ buffer = <<1>>
    /\ plan = <<null_decoder(Integral(2, "big"))>>
    /\ status = "Not enough data left in buffer to unpack fixed_string"
    /\ result = <<>>

(* C5: once the length field is decoded to `length`, varchar::unpack succeeds
   if and only if `length` is at most the number of bytes left after the
   length field, and throws otherwise. *)
C5_VarcharBoundsCheck ==
    [][AtField("varchar") =>
          LET lf == varchar_length(fmt[idx], current, buffer)
          IN  IF lf.length <= Len(buffer) - lf.current
              THEN Returned
              ELSE Threw("Not enough data left in unpack of varchar")]_vars

(* C8: when varchar::unpack succeeds with the cursor at c after the length
   field, its view is the bytes [c, c + length) and the cursor moves to
   c + length. *)
C8_VarcharViewExtent ==
    [][(AtField("varchar") /\ Returned) =>
          LET lf == varchar_length(fmt[idx], current, buffer)
          IN  /\ plan'[idx] = Piece(lf.current, lf.current + lf.length)
              /\ current' = lf.current + lf.length]_vars

(* C9: at every step of unpack the cursor is inside the buffer, and every
   view is the zero sentinel of an integral underrun or lies inside the
   buffer. *)
C9_ViewsInsideBuffer ==
    pc \in {"unpacking", "done"} =>
        /\ 0 <= current /\ current <= Len(buffer)
        /\ \A i \in 1..Len(plan) :
              \/ plan[i].source = "null"
              \/ (plan[i].source = "packed" /\ 0 <= plan[i].begin
                    /\ plan[i].begin <= plan[i].end /\ plan[i].end <= Len(buffer))

(* C10: an integral field reached with fewer bytes left than its size yields
   the zero sentinel and leaves the cursor where it was, so the next field is
   parsed from the same offset: an integral and then a fixed string, on a
   buffer of just the string, unpack to (0, the buffer); with enough bytes
   left the cursor moves by exactly the size. *)
C10_UnderrunKeepsCursor ==
    [][/\ AtField("integral") =>
            IF Remaining < fmt[idx].size
            THEN current' = current /\ plan' = Append(plan, null_decoder(fmt[idx]))
            ELSE /\ current' = current + fmt[idx].size
                 /\ plan' = Append(plan, Piece(current, current + fmt[idx].size))
       /\ (/\ pc = "unpacking" /\ idx > Len(fmt)
           /\ Len(fmt) = 2 /\ fmt[1].kind = "integral" /\ fmt[2].kind = "fixed_string"
           /\ Len(buffer) = fmt[2].length /\ Len(buffer) < fmt[1].size) =>
            /\ status' = "ok"
            /\ result' = <<IntArg(0), StrArg(buffer)>>]_vars

C10_Witness ==
    /\ pc = "done"
    /\ fmt = <<Integral(2, "little"), FixedString(1)>>
    /\ buffer = <<2>>
    /\ status = "ok"
    /\ result = <<IntArg(0), StrArg(<<2>>)>>

----------------------------------------------------------------------------
(* pack and then unpack *)

(* the values respect the format: one per field, an integer its raw_type
   holds, a fixed string of the declared length, a varchar whose length its
   length field holds *)
Respects(elements, args) ==
    /\ Len(args) = Len(elements)
    /\ \A i \in 1..Len(elements) :
          CASE elements[i].kind = "integral" ->
                 args[i].t = "int" /\ args[i].n < 256 ^ elements[i].size
            [] elements[i].kind = "fixed_string" ->
                 args[i].t = "str" /\ Len(args[i].s) = elements[i].length
            [] elements[i].kind = "varchar" ->
                 args[i].t = "str" /\ Len(args[i].s) < 256 ^ elements[i].length_encoder.size

(* C1: for values that respect the format, pack returns bytes and unpack of
   those bytes returns, without an error, the same values in field order. *)
C1_RoundTrip ==
    Respects(fmt, arguments) =>
        /\ pc = "packed" => packed.status = "ok"
        /\ (pc = "done" /\ extra = <<>>) => (status = "ok" /\ result = arguments)

(* unpack of bytes b succeeds: no field throws and every view is inside b *)
Succeeds(elements, b) ==
    LET u == follow_up_unpack(elements, 0, b)
    IN  u.status = "ok" /\ \A i \in 1..Len(u.plan) : InBuffer(u.plan[i], b)

(* C3: if unpack succeeds on a buffer, it succeeds with the same tuple on
   that buffer followed by any further bytes. *)
C3_TrailingBytesIgnored ==
    pc = "done" =>
        \A k \in 0..(Len(buffer) - 1) :
            LET b == SubSeq(buffer, 1, k)
            IN  Succeeds(fmt, b) =>
                    /\ status = "ok"
                    /\ result = decode_all(fmt, follow_up_unpack(fmt, 0, b).plan, b, 0)

====
